---- MODULE Spec2Model ----
(***************************************************************************)
(* Gameboy bus decoder (gameboy/pd.py, lookups.py, utils.py,               *)
(* hardware_constants.py) as a state machine.  One action per edge         *)
(* delivered by Decoder.decode: a read-start edge and a write-start edge.  *)
(* Python objects are records; an optional field (None) is the empty       *)
(* sequence, a present one a one-element sequence; None integers are -1.   *)
(* Spec runs one session on captures with every channel assigned,          *)
(* SpecUndriven one session on captures with unassigned channels, and      *)
(* SpecSessions several sessions on one Decoder object.                    *)
(***************************************************************************)
EXTENDS Integers, Sequences, FiniteSets, TLC

VARIABLES samplenum, matched, pins, prev_read, prev_write, prev_rom_bank,
          prev_sram_bank, putting, emitted, err, ended_read, ended_write,
          calls, log, peak, written, spans, capture, session, built

vars == <<samplenum, matched, pins, prev_read, prev_write, prev_rom_bank,
          prev_sram_bank, putting, emitted, err, ended_read, ended_write,
          calls, log, peak, written, spans, capture, session, built>>

----------------------------------------------------------------------------
(* Bounds of the exploration.                                              *)

\* number of edges of a capture that follows one instruction to its end
MaxEdges == 9

\* number of edges of a capture that mixes reads, writes and bank switches
MaxMixedEdges == 7

\* number of decode sessions run on one Decoder object
MaxSessions == 2

----------------------------------------------------------------------------
(* Python None.                                                            *)

None == -1
NoneStr == "<None>"

(* class Mode *)
Mode_NONE == 0
Mode_READ_ROM0 == 1
Mode_READ_ROMX == 2
Mode_READ_SRAM == 3
Mode_WRITE_SRAM == 4

(* class Ann *)
Ann_ADDR == 0
Ann_RD == 1
Ann_WR == 2
Ann_SYM == 3
Ann_WR_FUNC == 4
Ann_CODE == 5
Ann_CONST == 6
Ann_ROM_BANK == 7
Ann_SRAM_BANK == 8

(* class Match *)
Match_START_READ == 1
Match_START_WRITE == 2

(* class Addr *)
ROM0_START == \H0150
ROM0_END == \H3FFF
ROMX_START == \H4000
ROMX_END == \H7FFF
SRAM_START == \HA000
SRAM_END == \HBFFF

(* class Pin *)
Pin_A0 == 4
Pin_A15 == 19
Pin_D0 == 20
Pin_D7 == 27

(* value of an unassigned channel in a pin vector *)
UNASSIGNED == \HFF

(* class ReadState *)
ReadState_INIT == 0
ReadState_INCOMPLETE == 1
ReadState_COMPLETE == 2

(* class CycleType *)
CycleType_UNKNOWN == 0
CycleType_DATA == 1
CycleType_OPCODE == 2

(* addresses tested by Write.is_rom_bank_switch / is_sram_bank_switch *)
ROM_BANK_SELECT == \H2000
SRAM_BANK_SELECT == \H4000

----------------------------------------------------------------------------
(* lookups.py: the static tables.                                          *)

Instruction(opcode, length, ann) ==
    [opcode |-> opcode, length |-> length, ann |-> ann]

tables == <<
    Instruction(\H3E, 2, "ld a, #"),
    Instruction(\H7E, 2, "ld a, [hl]"),
    Instruction(\H21, 3, "ld hl, nn"),
    Instruction(\HEA, 4, "ld [nn], a"),
    Instruction(\HFE, 2, "cp #"),
    Instruction(\HC3, 3, "jp nn"),
    Instruction(\HC2, 3, "jp NZ, nn"),
    Instruction(\HCA, 3, "jp Z, nn"),
    Instruction(\H18, 2, "jp n"),
    Instruction(\HCD, 3, "call nn"),
    Instruction(\HC7, 8, "rst 0x00") >>

(* a Python dict built by a comprehension over a list: the value of a key *)
(* is the last entry of the list that has it                               *)
LastOf(idx) == CHOOSE i \in idx : \A j \in idx : j <= i

(* Lookups.__post_init__: opcode -> Instruction *)
instructions ==
    [ k \in { tables[i].opcode : i \in DOMAIN tables } |->
        tables[LastOf({ i \in DOMAIN tables : tables[i].opcode = k })] ]

HardwareConstantData(ann, data) == [ann |-> ann, data |-> data]

(* HardwareConstant.__post_init__: data -> HardwareConstantData *)
HardwareConstant(ann, addr, data_list) ==
    [ann |-> ann, addr |-> addr,
     data |-> [ k \in { data_list[i].data : i \in DOMAIN data_list } |->
                 data_list[LastOf({ i \in DOMAIN data_list :
                                      data_list[i].data = k })] ]]

hardware_const_table == <<
    HardwareConstant("MBC3SRamEnable", \H0000,
        << HardwareConstantData("SRAM_ENABLE", \H0A),
           HardwareConstantData("SRAM_DISABLE", \H00) >>),
    HardwareConstant("MBC3RomBank", \H2000, << >>),
    HardwareConstant("MBC3SRamBank", \H4000, << >>),
    HardwareConstant("MBC3LatchClock", \H6000,
        << HardwareConstantData("LATCH_CLOCK", \H01),
           HardwareConstantData("RESET_LATCH", \H00) >>),
    HardwareConstant("MBC3RTC", \HA000, << >>) >>

(* Lookups.__post_init__: address -> HardwareConstant *)
hardware_const ==
    [ k \in { hardware_const_table[i].addr : i \in DOMAIN hardware_const_table } |->
        hardware_const_table[LastOf({ i \in DOMAIN hardware_const_table :
                                        hardware_const_table[i].addr = k })] ]

(* gameboy/symbols.py is not part of the sources at hand: the lines of the *)
(* symbol file, already split into bank, address and name.                 *)
sym == <<
    [bank |-> \H00, addr |-> \H0150, symbol |-> "UpdatePlayerCoords"],
    [bank |-> \H00, addr |-> \H0160, symbol |-> "_HandlePlayerStep.finish"],
    [bank |-> \H03, addr |-> \H5000, symbol |-> "MyFunc"],
    [bank |-> \H01, addr |-> \H5000, symbol |-> "OtherFunc"],
    [bank |-> \H00, addr |-> \HA000, symbol |-> "sScratch"],
    [bank |-> \H01, addr |-> \HA000, symbol |-> "sBoxMon"] >>

(* Lookups.process_raw_symbols: symbols[addr][bank] = symbol *)
symbols ==
    [ a \in { sym[i].addr : i \in DOMAIN sym } |->
        LET lines == { i \in DOMAIN sym : sym[i].addr = a }
        IN  [ b \in { sym[i].bank : i \in lines } |->
                sym[LastOf({ i \in lines : sym[i].bank = b })].symbol ] ]

(* variant of find_symbol that looks the address up in bank 0x00 only *)
find_symbol_bank0(cycle, bank) ==
    IF cycle.addr \in DOMAIN symbols /\ 0 \in DOMAIN symbols[cycle.addr]
    THEN symbols[cycle.addr][0]
    ELSE NoneStr

(* Lookups.find_symbol *)
find_symbol(cycle, bank) ==
    IF cycle.addr \in DOMAIN symbols
    THEN IF bank \in DOMAIN symbols[cycle.addr]
         THEN symbols[cycle.addr][bank]
         ELSE NoneStr
    ELSE NoneStr

----------------------------------------------------------------------------
(* pd.py: pin vectors and cycles.                                          *)

RECURSIVE Pow2(_)
Pow2(n) == IF n = 0 THEN 1 ELSE 2 * Pow2(n - 1)

Bit(v, i) == (v \div Pow2(i)) % 2

(* the 28 pin values the host delivers for an address and a data value;    *)
(* an undriven bus (None) has its channels at the unassigned value         *)
PinVector(addr, data) ==
    [ i \in 1..28 |->
        IF i <= 4 THEN 0
        ELSE IF i <= 20
             THEN (IF addr = None THEN UNASSIGNED ELSE Bit(addr, i - 5))
             ELSE (IF data = None THEN UNASSIGNED ELSE Bit(data, i - 21)) ]

(* pins[lo:hi+1] with 0-based Python indices *)
Slice(p, lo, hi) == SubSeq(p, lo + 1, hi + 1)

RECURSIVE ReduceReversed(_, _, _)
ReduceReversed(bus, i, acc) ==
    IF i = 0 THEN acc ELSE ReduceReversed(bus, i - 1, 2 * acc + bus[i])

(* variant of reduce_bus that returns None only when every line of the bus *)
(* is unassigned                                                           *)
reduce_bus_all_lines(bus) ==
    IF \A i \in DOMAIN bus : bus[i] = UNASSIGNED
    THEN None
    ELSE ReduceReversed(bus, Len(bus) - 1, bus[Len(bus)])

(* reduce_bus *)
reduce_bus(bus) ==
    IF \E i \in DOMAIN bus : bus[i] = UNASSIGNED
    THEN None
    ELSE ReduceReversed(bus, Len(bus) - 1, bus[Len(bus)])

(* Each capture draws its pin vectors from one small set, given here by    *)
(* the <<address, data>> pairs on the bus, and has a number of edges; all  *)
(* channels of the decoder are required ones, so every bus is driven.      *)
OpcodeBuses ==
    { { <<\H0150, tables[i].opcode>>, <<\H0151, \H12>> } : i \in DOMAIN tables }

MixedBuses ==
    { { <<\H0150, \H12>>, <<\H0160, \H3E>>, <<\H8000, \H12>> },
      { <<\H2000, \H03>>, <<\H2000, \H01>>, <<\H4000, \H03>>, <<\H5000, \H12>> },
      { <<\H0150, \H12>>, <<\H2000, \H03>>, <<\H4000, \H01>> },
      { <<\H4000, \H03>>, <<\H5000, \HCD>>, <<\H5000, \H00>>, <<\H5000, \H50>> },
      { <<\H0150, \H12>>, <<\H0000, \H0A>>, <<\H0000, \H00>>, <<\H0000, \H12>>,
        <<\H6000, \H01>> },
      { <<\H0150, \H12>>, <<\H4000, \H01>>, <<\HA000, \H3E>>, <<\HA001, \H12>>,
        <<\H0000, \H3E>> } }

PinVectors(buses) == { PinVector(bus[1], bus[2]) : bus \in buses }

Captures ==
    { [alphabet |-> PinVectors(buses), edges |-> MaxEdges] : buses \in OpcodeBuses }
    \cup
    { [alphabet |-> PinVectors(buses), edges |-> MaxMixedEdges] : buses \in MixedBuses }

(* a pin vector with one more channel unassigned *)
Undriven(p, pin) == [p EXCEPT ![pin + 1] = UNASSIGNED]

(* Captures of a decoder run with unassigned channels: a whole bus, one    *)
(* line of a bus, or both buses undriven, next to driven buses that are    *)
(* all low and all high.                                                   *)
UndrivenAlphabets ==
    { { PinVector(\H0150, \H3E), PinVector(\H0150, None), PinVector(None, \H12),
        PinVector(0, 0) },
      { PinVector(\H0150, \H12), PinVector(\H2000, None), PinVector(\H4000, \H01),
        Undriven(PinVector(\H2000, \H03), Pin_A15),
        Undriven(PinVector(\H0150, \H12), Pin_D0) },
      { PinVector(\H5000, \HCD), PinVector(\H4000, \H03), PinVector(None, None),
        PinVector(\HFFFF, \HFF) } }

UndrivenCaptures ==
    { [alphabet |-> a, edges |-> MaxMixedEdges] : a \in UndrivenAlphabets }

(* the Cycle of every pin vector of the captures, its buses reduced once;  *)
(* the sample number is that of the edge                                   *)
bus_values ==
    [ p \in UNION { c.alphabet : c \in Captures \cup UndrivenCaptures } |->
        [sample |-> None,
         addr |-> reduce_bus(Slice(p, Pin_A0, Pin_A15)),
         data |-> reduce_bus(Slice(p, Pin_D0, Pin_D7)),
         cycle_type |-> CycleType_UNKNOWN] ]

(* Cycle.__post_init__ *)
Cycle(sample, p) == [bus_values[p] EXCEPT !.sample = sample]

----------------------------------------------------------------------------
(* pd.py: class Write.                                                     *)

(* the comparisons of Write.__post_init__ raise TypeError on an address    *)
(* that is None                                                            *)
Write_raises(p) == bus_values[p].addr = None

(* Write.__post_init__, given the Cycle of its pins *)
Write_post_init(start_sample, cycle, sram_bank) ==
    LET in_sram == SRAM_START <= cycle.addr /\ cycle.addr <= SRAM_END
    IN  [start_sample |-> start_sample,
         cycle |-> IF in_sram
                   THEN [cycle EXCEPT !.cycle_type = CycleType_DATA]
                   ELSE cycle,
         mode |-> IF in_sram THEN Mode_WRITE_SRAM ELSE None,
         end_sample |-> None,
         symbol |-> IF in_sram THEN find_symbol(cycle, sram_bank) ELSE NoneStr,
         hardware_const |-> IF cycle.addr \in DOMAIN hardware_const
                            THEN << hardware_const[cycle.addr] >>
                            ELSE << >>,
         cycle_count |-> 0]

(* Write(start_sample, pins, sram_bank) *)
Write(start_sample, p, sram_bank) ==
    Write_post_init(start_sample, Cycle(start_sample, p), sram_bank)

(* Write.end *)
Write_end(self, end_sample) == [self EXCEPT !.end_sample = end_sample]

(* variant of Write.get_ann_hardware_const_data that gives the name of the *)
(* constant                                                                *)
get_ann_hardware_const_name(self) == self.hardware_const[1].ann

(* Write.get_ann_hardware_const_data *)
get_ann_hardware_const_data(self) ==
    self.hardware_const[1].data[self.cycle.data].ann

(* Write.is_sram_bank_switch *)
is_sram_bank_switch(self) ==
    self.hardware_const # << >> /\ self.hardware_const[1].addr = SRAM_BANK_SELECT

(* variant of is_rom_bank_switch that does not compare the address *)
is_rom_bank_switch_any(self) == self.hardware_const # << >>

(* Write.is_rom_bank_switch *)
is_rom_bank_switch(self) ==
    self.hardware_const # << >> /\ self.hardware_const[1].addr = ROM_BANK_SELECT

----------------------------------------------------------------------------
(* pd.py: class Read.                                                      *)

(* variant of init_rom that completes the Read only on a one-byte opcode *)
init_rom_waits(self, cycle, rom_bank) ==
    LET known == cycle.data \in DOMAIN instructions
        inst == instructions[cycle.data]
    IN  [self |-> [self EXCEPT
                     !.symbol = find_symbol(cycle, rom_bank),
                     !.instruction = IF known THEN << inst >> ELSE << >>,
                     !.state = IF known /\ inst.length = 1
                               THEN ReadState_COMPLETE
                               ELSE ReadState_INCOMPLETE,
                     !.cycle_count = 1],
         cycle |-> IF known
                   THEN [cycle EXCEPT !.cycle_type = CycleType_OPCODE]
                   ELSE cycle]

(* Read.init_rom: the Read and its first cycle after the call *)
init_rom(self, cycle, rom_bank) ==
    LET known == cycle.data \in DOMAIN instructions
        inst == instructions[cycle.data]
    IN  [self |-> [self EXCEPT
                     !.symbol = find_symbol(cycle, rom_bank),
                     !.instruction = IF known THEN << inst >> ELSE << >>,
                     !.state = IF known /\ inst.length # 1
                               THEN ReadState_INCOMPLETE
                               ELSE ReadState_COMPLETE,
                     !.cycle_count = 1],
         cycle |-> IF known
                   THEN [cycle EXCEPT !.cycle_type = CycleType_OPCODE]
                   ELSE cycle]

(* the comparisons of Read.__post_init__ raise TypeError on an address     *)
(* that is None                                                            *)
Read_raises(p) == bus_values[p].addr = None

(* self.cycles.append(cycle), on the Read and the cycle init_rom returns *)
append_cycle(r) == [r.self EXCEPT !.cycles = Append(@, r.cycle)]

(* variant of Read.__post_init__ whose second window has no upper end *)
Read_post_init_open_ended(self, cycle, rom_bank) ==
    IF ROM0_START <= cycle.addr /\ cycle.addr <= ROM0_END
    THEN append_cycle(init_rom([self EXCEPT !.mode = Mode_READ_ROM0], cycle, 0))
    ELSE IF ROMX_START <= cycle.addr
    THEN append_cycle(init_rom([self EXCEPT !.mode = Mode_READ_ROMX], cycle,
                               rom_bank))
    ELSE [self EXCEPT !.state = ReadState_COMPLETE,
                      !.cycles = Append(@, cycle)]

(* Read.__post_init__, given the fields set by the dataclass and the Cycle *)
(* of the pins                                                             *)
Read_post_init(self, cycle, rom_bank) ==
    IF ROM0_START <= cycle.addr /\ cycle.addr <= ROM0_END
    THEN append_cycle(init_rom([self EXCEPT !.mode = Mode_READ_ROM0], cycle, 0))
    ELSE IF ROMX_START <= cycle.addr /\ cycle.addr <= ROMX_END
    THEN append_cycle(init_rom([self EXCEPT !.mode = Mode_READ_ROMX], cycle,
                               rom_bank))
    ELSE [self EXCEPT !.state = ReadState_COMPLETE,
                      !.cycles = Append(@, cycle)]

(* Read(start_sample, pins, rom_bank) *)
Read(start_sample, p, rom_bank) ==
    Read_post_init([start_sample |-> start_sample,
                    cycles |-> << >>,
                    mode |-> None,
                    end_sample |-> None,
                    symbol |-> NoneStr,
                    instruction |-> << >>,
                    state |-> ReadState_INIT,
                    special_ann |-> NoneStr,
                    cycle_count |-> 0],
                   Cycle(start_sample, p), rom_bank)

(* Read.next reads self.instruction.length: AttributeError without an      *)
(* instruction                                                             *)
next_raises(self) == self.instruction = << >>

(* variant of next that compares the count before incrementing it *)
next_counts_late(self, p, sample) ==
    LET cycle == [Cycle(sample, p) EXCEPT !.cycle_type = CycleType_DATA]
    IN  [self EXCEPT !.cycles = Append(@, cycle),
                     !.cycle_count = @ + 1,
                     !.state = IF self.cycle_count = self.instruction[1].length
                               THEN ReadState_COMPLETE
                               ELSE @]

(* variant of next that puts the new cycle before the cycles held *)
next_prepends(self, p, sample) ==
    LET cycle == [Cycle(sample, p) EXCEPT !.cycle_type = CycleType_DATA]
        count == self.cycle_count + 1
    IN  [self EXCEPT !.cycles = << cycle >> \o @,
                     !.cycle_count = count,
                     !.state = IF count = self.instruction[1].length
                               THEN ReadState_COMPLETE
                               ELSE @]

(* Read.next *)
next(self, p, sample) ==
    LET cycle == [Cycle(sample, p) EXCEPT !.cycle_type = CycleType_DATA]
        count == self.cycle_count + 1
    IN  [self EXCEPT !.cycles = Append(@, cycle),
                     !.cycle_count = count,
                     !.state = IF count = self.instruction[1].length
                               THEN ReadState_COMPLETE
                               ELSE @]

(* opcodes whose operand Read.end resolves through the symbol table *)
ABSOLUTE_OPCODES == {\H21, \HC2, \HC3, \HCA, \HCD, \HEA}

has_operand(self) ==
    self.instruction # << >> /\ self.instruction[1].opcode \in ABSOLUTE_OPCODES

(* Read.end: the exception raised by self.cycles[2].data << 8, if any *)
Read_end_raises(self) ==
    IF ~has_operand(self) THEN ""
    ELSE IF Len(self.cycles) < 3 THEN "IndexError"
    ELSE IF self.cycles[3].data = None \/ self.cycles[2].data = None
         THEN "TypeError"
    ELSE ""

(* variant of Read.end that takes the operand high byte first *)
Read_end_high_byte_first(self, end_sample, sram_bank) ==
    LET addr == self.cycles[2].data * 256 + self.cycles[3].data
        resolved == /\ has_operand(self)
                    /\ addr \in DOMAIN symbols
                    /\ sram_bank \in DOMAIN symbols[addr]
    IN  [self EXCEPT
           !.special_ann = IF resolved
                           THEN self.instruction[1].ann \o " (" \o
                                symbols[addr][sram_bank] \o ")"
                           ELSE @,
           !.end_sample = end_sample]

(* Read.end *)
Read_end(self, end_sample, sram_bank) ==
    LET addr == self.cycles[3].data * 256 + self.cycles[2].data
        resolved == /\ has_operand(self)
                    /\ addr \in DOMAIN symbols
                    /\ sram_bank \in DOMAIN symbols[addr]
    IN  [self EXCEPT
           !.special_ann = IF resolved
                           THEN self.instruction[1].ann \o " (" \o
                                symbols[addr][sram_bank] \o ")"
                           ELSE @,
           !.end_sample = end_sample]

(* Read.get_instruction_ann *)
get_instruction_ann(self) ==
    IF self.special_ann # NoneStr THEN self.special_ann
    ELSE self.instruction[1].ann

(* variant of get_sub_end_sample in which every cycle runs to the end of *)
(* the Read                                                              *)
get_sub_end_sample_whole(self, idx) == self.end_sample

(* Read.get_sub_end_sample, idx counted from 0 *)
get_sub_end_sample(self, idx) ==
    IF idx < Len(self.cycles) - 1
    THEN self.cycles[idx + 2].sample
    ELSE self.end_sample

----------------------------------------------------------------------------
(* utils.py and pd.py: class Decoder.  The Decoder object is the record of *)
(* its fields; a method is an operator from the object before the call to  *)
(* the object after it.  An uncaught exception sets err, and the           *)
(* statements after the raise are not executed.                            *)

raise(self, exc) == [self EXCEPT !.err = exc]

OpenCount(self) ==
    (IF self.prev_read # << >> THEN 1 ELSE 0) +
    (IF self.prev_write # << >> THEN 1 ELSE 0)

(* bookkeeping of the operations one edge performs *)
observe(self, op) ==
    [self EXCEPT !.log = Append(@, op),
                 !.peak = IF OpenCount(self) > @ THEN OpenCount(self) ELSE @]

(* str.format with {:02X} and {:04X} *)
HexDigits ==
    << "0", "1", "2", "3", "4", "5", "6", "7",
       "8", "9", "A", "B", "C", "D", "E", "F" >>

Hex02(n) == HexDigits[((n \div 16) % 16) + 1] \o HexDigits[(n % 16) + 1]

Hex04(n) == Hex02(n \div 256) \o Hex02(n % 256)

(* Decoder.put(ss, es, self.out_ann, [cls, [text]]) *)
put(self, ss, es, cls, text) ==
    [self EXCEPT !.emitted =
        Append(@, [ss |-> ss, es |-> es, cls |-> cls, text |-> text])]

(* Decoder.print_read: the loop over read.cycles from index idx on; the   *)
(* address of a cycle is put, then its data                                *)
RECURSIVE print_cycles(_, _, _)
RECURSIVE print_cycle_data(_, _, _)
print_cycle_data(self, read, idx) ==
    IF read.cycles[idx + 1].data = None THEN raise(self, "TypeError")
    ELSE print_cycles(put(self, read.cycles[idx + 1].sample,
                          get_sub_end_sample(read, idx), Ann_RD,
                          Hex02(read.cycles[idx + 1].data)),
                      read, idx + 1)

print_cycles(self, read, idx) ==
    IF idx >= Len(read.cycles) THEN self
    ELSE IF read.cycles[idx + 1].addr = None THEN raise(self, "TypeError")
    ELSE print_cycle_data(put(self, read.cycles[idx + 1].sample,
                              get_sub_end_sample(read, idx), Ann_ADDR,
                              Hex04(read.cycles[idx + 1].addr)),
                          read, idx)

(* Decoder.print_read: if read.symbol *)
print_symbol(self, read) ==
    IF read.symbol # NoneStr
    THEN put(self, read.start_sample, read.end_sample, Ann_SYM, read.symbol)
    ELSE self

(* Decoder.print_read: if read.instruction *)
print_instruction(self, read) ==
    IF read.instruction # << >>
    THEN put(self, read.start_sample, read.end_sample, Ann_CODE,
             get_instruction_ann(read))
    ELSE self

(* Decoder.print_read: the statements after the loop *)
print_annotations(self, read) ==
    IF self.err # "" THEN self
    ELSE print_instruction(print_symbol(self, read), read)

(* Decoder.print_read *)
print_read(self, read) == print_annotations(print_cycles(self, read, 0), read)

(* Decoder.start: the symbols of the print_player_step filter *)
start_symbol == "UpdatePlayerCoords"
end_symbol == "_HandlePlayerStep.finish"

(* AnnFilter.check: if start_symbol == self.start_symbol *)
check_start(self, read) ==
    IF read.symbol = start_symbol
    THEN [self EXCEPT !.putting = TRUE]
    ELSE self

(* AnnFilter.check: the call of self.func, which is print_read *)
check_func(self, read) == print_read([self EXCEPT !.calls = @ + 1], read)

(* AnnFilter.check: if self.state == State.Collecting *)
check_collecting(self, read) ==
    IF self.putting THEN check_func(self, read) ELSE self

(* AnnFilter.check: if end_symbol == self.end_symbol *)
check_end(self, read) ==
    IF self.err # "" THEN self
    ELSE IF read.symbol = end_symbol
    THEN [self EXCEPT !.putting = FALSE]
    ELSE self

(* variant of check that leaves the range before the callback *)
check_end_exclusive(self, read) ==
    check_collecting(check_end(check_start(self, read), read), read)

(* variant of check that calls back whatever the latch *)
check_ungated(self, read) ==
    check_end(check_func(check_start(self, read), read), read)

(* AnnFilter.check of print_player_step *)
check(self, read) ==
    check_end(check_collecting(check_start(self, read), read), read)

(* prev_rom_bank['bank'] if prev_rom_bank else 0x00 *)
active_bank(prev_bank) == IF prev_bank # << >> THEN prev_bank[1].bank ELSE 0

(* variant of the end of Decoder.end_read that leaves the closed Read in *)
(* prev_read                                                             *)
clear_read_keeps(self) ==
    IF self.err # "" THEN self ELSE observe(self, "end_read")

(* Decoder.end_read: self.prev_read = None, after the filter returned *)
clear_read(self) ==
    IF self.err # "" THEN self
    ELSE observe([self EXCEPT !.prev_read = << >>], "end_read")

(* Decoder.end_read: the statements after self.prev_read.end() *)
close_read(self, read) ==
    clear_read(check([self EXCEPT !.prev_read = << read >>,
                                  !.ended_read = << read >>], read))

(* Decoder.end_read *)
end_read(self) ==
    IF self.prev_read = << >> THEN self
    ELSE IF Read_end_raises(self.prev_read[1]) # ""
    THEN raise(self, Read_end_raises(self.prev_read[1]))
    ELSE close_read(self, Read_end(self.prev_read[1], self.samplenum,
                                   active_bank(self.prev_sram_bank)))

(* the Cycle that Read(), Read.next and Write() build from the pins of the *)
(* edge                                                                    *)
build(self, p) == [self EXCEPT !.built = << Cycle(self.samplenum, p) >>]

(* Decoder.read: self.prev_read = Read(self.samplenum, pins, rom_bank) *)
new_read(self, p) ==
    IF self.err # "" THEN self
    ELSE IF Read_raises(p) THEN raise(build(self, p), "TypeError")
    ELSE observe([build(self, p) EXCEPT !.prev_read =
                    << Read(self.samplenum, p, active_bank(self.prev_rom_bank)) >>],
                 "Read")

(* Decoder.read: self.prev_read.next(pins, self.samplenum) *)
next_cycle(self, p) ==
    IF next_raises(self.prev_read[1]) THEN raise(build(self, p), "AttributeError")
    ELSE observe([build(self, p) EXCEPT !.prev_read =
                    << next(self.prev_read[1], p, self.samplenum) >>],
                 "next")

(* Decoder.read *)
read(self, p) ==
    IF self.prev_read = << >> THEN new_read(self, p)
    ELSE IF self.prev_read[1].state = ReadState_INCOMPLETE
    THEN next_cycle(self, p)
    ELSE IF self.prev_read[1].state = ReadState_COMPLETE
    THEN new_read(end_read(self), p)
    ELSE self

(* the dict stored in prev_rom_bank and prev_sram_bank *)
bank_span(start_sample, bank, prefix) ==
    [start_sample |-> start_sample, end_sample |-> None, bank |-> bank,
     ann |-> prefix \o Hex02(bank)]

(* Decoder.switch_sram: if self.prev_sram_bank *)
put_sram_bank(self) ==
    IF self.prev_sram_bank # << >>
    THEN put(self, self.prev_sram_bank[1].start_sample, self.samplenum,
             Ann_SRAM_BANK, self.prev_sram_bank[1].ann)
    ELSE self

(* Decoder.switch_sram: self.prev_sram_bank = { ... } *)
set_sram_bank(self, start_sample, write) ==
    IF write.cycle.data = None THEN raise(self, "TypeError")
    ELSE observe([self EXCEPT !.prev_sram_bank =
                    << bank_span(start_sample, write.cycle.data, "SRAM Bank: ") >>],
                 "switch_sram")

(* Decoder.switch_sram *)
switch_sram(self, write) ==
    set_sram_bank(put_sram_bank(self), self.samplenum, write)

(* Decoder.switch_rom: if self.prev_rom_bank *)
put_rom_bank(self) ==
    IF self.prev_rom_bank # << >>
    THEN put(self, self.prev_rom_bank[1].start_sample, self.samplenum,
             Ann_ROM_BANK, self.prev_rom_bank[1].ann)
    ELSE self

(* Decoder.switch_rom: self.prev_rom_bank = { ... } *)
set_rom_bank(self, start_sample, write) ==
    IF write.cycle.data = None THEN raise(self, "TypeError")
    ELSE observe([self EXCEPT !.prev_rom_bank =
                    << bank_span(start_sample, write.cycle.data, "ROM Bank: ") >>],
                 "switch_rom")

(* variant of switch_rom that keeps the start of the span it replaces *)
switch_rom_keeps_start(self, write) ==
    set_rom_bank(put_rom_bank(self),
                 IF self.prev_rom_bank # << >>
                 THEN self.prev_rom_bank[1].start_sample
                 ELSE self.samplenum,
                 write)

(* variant of switch_rom that emits the span only while the range filter   *)
(* is collecting                                                           *)
switch_rom_gated(self, write) ==
    set_rom_bank(IF self.putting THEN put_rom_bank(self) ELSE self,
                 self.samplenum, write)

(* Decoder.switch_rom *)
switch_rom(self, write) ==
    set_rom_bank(put_rom_bank(self), self.samplenum, write)

(* Decoder.end_write: if data in write.hardware_const.data *)
put_const(self, write) ==
    IF write.cycle.data \in DOMAIN write.hardware_const[1].data
    THEN put(self, write.start_sample, write.end_sample, Ann_CONST,
             get_ann_hardware_const_data(write))
    ELSE self

(* variant of the annotation of a Write that goes on to the constant after *)
(* the symbol                                                              *)
put_write_ann_both(self, write) ==
    IF write.hardware_const = << >>
    THEN IF write.symbol # NoneStr
         THEN put(self, write.start_sample, write.end_sample, Ann_SYM, write.symbol)
         ELSE self
    ELSE put_const(put(IF write.symbol # NoneStr
                       THEN put(self, write.start_sample, write.end_sample,
                                Ann_SYM, write.symbol)
                       ELSE self,
                       write.start_sample, write.end_sample, Ann_WR_FUNC,
                       write.hardware_const[1].ann),
                   write)

(* Decoder.end_write: if write.symbol ... elif write.hardware_const *)
put_write_ann(self, write) ==
    IF write.symbol # NoneStr
    THEN put(self, write.start_sample, write.end_sample, Ann_SYM, write.symbol)
    ELSE IF write.hardware_const = << >> THEN self
    ELSE put_const(put(self, write.start_sample, write.end_sample, Ann_WR_FUNC,
                       write.hardware_const[1].ann),
                   write)

(* Decoder.end_write: the data, put after the address *)
put_write_data(self, write) ==
    IF write.cycle.data = None THEN raise(self, "TypeError")
    ELSE put_write_ann(put(self, write.start_sample, write.end_sample, Ann_WR,
                           Hex02(write.cycle.data)),
                       write)

(* variant of the rendering of a Write that does not look at the filter *)
put_write_ungated(self, write) ==
    put_write_data(put(self, write.start_sample, write.end_sample,
                       Ann_ADDR, Hex04(write.cycle.addr)),
                   write)

(* Decoder.end_write: if self.putting *)
put_write(self, write) ==
    IF ~self.putting THEN self
    ELSE put_write_data(put(self, write.start_sample, write.end_sample,
                            Ann_ADDR, Hex04(write.cycle.addr)),
                        write)

(* Decoder.end_write: self.prev_write = None *)
clear_write(self) ==
    IF self.err # "" THEN self
    ELSE observe([self EXCEPT !.prev_write = << >>], "end_write")

(* Decoder.end_write: the statements after self.prev_write.end() *)
close_write(self, write) ==
    clear_write(put_write([self EXCEPT !.prev_write = << write >>,
                                       !.ended_write = << write >>], write))

(* Decoder.end_write *)
end_write(self) ==
    IF self.prev_write = << >> THEN self
    ELSE close_write(self, Write_end(self.prev_write[1], self.samplenum))

(* Decoder.write: the bank switch the new Write asks for *)
switch_bank(self, write) ==
    IF is_rom_bank_switch(write) THEN switch_rom(self, write)
    ELSE IF is_sram_bank_switch(write) THEN switch_sram(self, write)
    ELSE self

(* Decoder.write: self.prev_write = Write(self.samplenum, pins, sram_bank) *)
set_write(self, write) ==
    switch_bank(observe([self EXCEPT !.prev_write = << write >>], "Write"), write)

(* Decoder.write: the statements after the previous Write is ended *)
new_write(self, p) ==
    IF self.err # "" THEN self
    ELSE IF Write_raises(p) THEN raise(build(self, p), "TypeError")
    ELSE set_write(build(self, p),
                   Write(self.samplenum, p, active_bank(self.prev_sram_bank)))

(* Decoder.write *)
write(self, p) ==
    new_write(IF self.prev_write # << >> THEN end_write(self) ELSE self, p)

----------------------------------------------------------------------------
(* The state machine.  The host's wait() delivers one matching edge at a   *)
(* time with its sample number and pin vector.  The code only copies and   *)
(* compares sample numbers, so consecutive numbers stand for any           *)
(* increasing sequence.                                                    *)

(* the Decoder object in the current state *)
Self ==
    [samplenum |-> samplenum, prev_read |-> prev_read, prev_write |-> prev_write,
     prev_rom_bank |-> prev_rom_bank, prev_sram_bank |-> prev_sram_bank,
     putting |-> putting, emitted |-> emitted, err |-> err,
     ended_read |-> ended_read, ended_write |-> ended_write,
     calls |-> calls, log |-> log, peak |-> peak, built |-> built]

(* self.wait(): the next sample number; the bookkeeping of the previous    *)
(* edge is cleared                                                         *)
wait(self) ==
    [self EXCEPT !.samplenum = IF @ = None THEN 0 ELSE @ + 1,
                 !.emitted = << >>, !.ended_read = << >>, !.ended_write = << >>,
                 !.calls = 0, !.log = << >>, !.peak = OpenCount(self),
                 !.built = << >>]

(* variant of the START_READ branch that does not close the open Write *)
decode_read_keeps_write(self, p) == read(self, p)

(* Decoder.decode, branch Match.START_READ: self.read(pins) unless         *)
(* self.end_write() raised                                                 *)
read_pins(self, p) == IF self.err # "" THEN self ELSE read(self, p)

(* Decoder.decode, branch Match.START_READ *)
decode_read(self, p) == read_pins(end_write(self), p)

(* Decoder.decode, branch Match.START_WRITE: self.write(pins) unless       *)
(* self.end_read() raised                                                  *)
write_pins(self, p) == IF self.err # "" THEN self ELSE write(self, p)

(* Decoder.decode, branch Match.START_WRITE *)
decode_write(self, p) == write_pins(end_read(self), p)

OfClass(events, cls) == SelectSeq(events, LAMBDA ev : ev.cls = cls)

(* per kind of bank, the number of span events emitted so far and the end  *)
(* sample of the latest one                                                *)
note_kind(sp, events) ==
    IF events = << >> THEN sp
    ELSE [count |-> sp.count + Len(events), end |-> events[Len(events)].es]

note_spans(sp, events) ==
    [rom |-> note_kind(sp.rom, OfClass(events, Ann_ROM_BANK)),
     sram |-> note_kind(sp.sram, OfClass(events, Ann_SRAM_BANK))]

(* the Decoder object after the edge becomes the state *)
Commit(s, sp) ==
    /\ samplenum' = s.samplenum
    /\ prev_read' = s.prev_read
    /\ prev_write' = s.prev_write
    /\ prev_rom_bank' = s.prev_rom_bank
    /\ prev_sram_bank' = s.prev_sram_bank
    /\ putting' = s.putting
    /\ emitted' = s.emitted
    /\ err' = s.err
    /\ ended_read' = s.ended_read
    /\ ended_write' = s.ended_write
    /\ calls' = s.calls
    /\ log' = s.log
    /\ peak' = s.peak
    /\ built' = s.built
    /\ spans' = note_spans(sp, s.emitted)

(* the capture goes on: no exception has ended decode() and the host has   *)
(* edges left                                                              *)
Running == err = "" /\ (samplenum = None \/ samplenum + 1 < capture.edges)

(* no bank-select write and no bank span yet *)
NoWrites == [rom |-> 0, sram |-> 0, rom_count |-> 0, sram_count |-> 0]
NoSpans == [rom |-> [count |-> 0, end |-> None],
            sram |-> [count |-> 0, end |-> None]]

(* Decoder.__init__, Decoder.reset, Decoder.start: the object when         *)
(* decode() is entered                                                     *)
Started ==
    /\ samplenum = None
    /\ matched = 0
    /\ pins = << >>
    /\ prev_read = << >>
    /\ prev_write = << >>
    /\ prev_rom_bank = << >>
    /\ prev_sram_bank = << >>
    /\ putting = FALSE
    /\ emitted = << >>
    /\ err = ""
    /\ ended_read = << >>
    /\ ended_write = << >>
    /\ calls = 0
    /\ log = << >>
    /\ peak = 0
    /\ built = << >>
    /\ written = NoWrites
    /\ spans = NoSpans
    /\ session = 1

Init == Started /\ capture \in Captures

(* a read-start edge *)
ReadEdge ==
    /\ Running
    /\ \E p \in capture.alphabet :
         /\ matched' = Match_START_READ
         /\ pins' = p
         /\ Commit(decode_read(wait(Self), p), spans)
    /\ UNCHANGED <<written, capture, session>>

(* the data of the latest write-start edge at each bank-select address, *)
(* and the number of write-start edges at it                            *)
note_write(w, cycle) ==
    [rom |-> IF cycle.addr = ROM_BANK_SELECT THEN cycle.data ELSE w.rom,
     sram |-> IF cycle.addr = SRAM_BANK_SELECT THEN cycle.data ELSE w.sram,
     rom_count |-> IF cycle.addr = ROM_BANK_SELECT
                   THEN w.rom_count + 1 ELSE w.rom_count,
     sram_count |-> IF cycle.addr = SRAM_BANK_SELECT
                    THEN w.sram_count + 1 ELSE w.sram_count]

(* a write-start edge *)
WriteEdge ==
    /\ Running
    /\ \E p \in capture.alphabet :
         /\ matched' = Match_START_WRITE
         /\ pins' = p
         /\ written' = note_write(written, bus_values[p])
         /\ Commit(decode_write(wait(Self), p), spans)
    /\ UNCHANGED <<capture, session>>

Next == ReadEdge \/ WriteEdge

Spec == Init /\ [][Next]_vars

----------------------------------------------------------------------------
(* Captures with unassigned channels.                                      *)

InitUndriven == Started /\ capture \in UndrivenCaptures

SpecUndriven == InitUndriven /\ [][Next]_vars

----------------------------------------------------------------------------
(* Several sessions on one Decoder object: the host calls reset() and      *)
(* start() before it enters decode() again.                                *)

(* variant of start that resets what reset() resets *)
start_prev_read_only(self) == [self EXCEPT !.prev_read = << >>]

(* Decoder.reset *)
reset(self) == [self EXCEPT !.prev_read = << >>]

(* Decoder.start; the AnnFilter it creates has putting = False *)
start(self) ==
    [self EXCEPT !.samplenum = None,
                 !.prev_read = << >>,
                 !.prev_write = << >>,
                 !.prev_rom_bank = << >>,
                 !.prev_sram_bank = << >>,
                 !.putting = FALSE]

(* decode() is entered anew: nothing raised, no edge processed *)
enter_decode(self) ==
    [self EXCEPT !.err = "", !.emitted = << >>, !.ended_read = << >>,
                 !.ended_write = << >>, !.calls = 0, !.log = << >>, !.peak = 0,
                 !.built = << >>]

(* a new session on a capture of its own, after a session of at least one  *)
(* edge                                                                    *)
StartSession ==
    /\ samplenum # None
    /\ session < MaxSessions
    /\ session' = session + 1
    /\ matched' = 0
    /\ pins' = << >>
    /\ written' = NoWrites
    /\ capture' \in Captures
    /\ Commit(enter_decode(start(reset(Self))), NoSpans)

NextSessions == ReadEdge \/ WriteEdge \/ StartSession

SpecSessions == Init /\ [][NextSessions]_vars

----------------------------------------------------------------------------
(* Vocabulary of the properties.                                           *)

Has(q, op) == \E i \in DOMAIN q : q[i] = op

InRom0(addr) == ROM0_START <= addr /\ addr <= ROM0_END
InRomX(addr) == ROMX_START <= addr /\ addr <= ROMX_END
InRomWindow(addr) == InRom0(addr) \/ InRomX(addr)

TableOpcodes == { tables[i].opcode : i \in DOMAIN tables }
TableEntry(opcode) == tables[CHOOSE i \in DOMAIN tables : tables[i].opcode = opcode]

(* the symbol-file entry for a bank and an address, if any *)
SymbolEntry(bank, addr) ==
    LET idx == { i \in DOMAIN sym : sym[i].bank = bank /\ sym[i].addr = addr }
    IN  IF idx = { } THEN NoneStr
        ELSE sym[CHOOSE i \in idx : \A j \in idx : j <= i].symbol

(* the address and data of the edge that led to the current state *)
EdgeAddr == bus_values[pins].addr
EdgeData == bus_values[pins].data

(* a Read opened in a ROM window on a table opcode, resp. on another byte *)
OpcodeRead(r) ==
    InRomWindow(r.cycles[1].addr) /\ r.cycles[1].data \in TableOpcodes
UnknownRead(r) ==
    InRomWindow(r.cycles[1].addr) /\ r.cycles[1].data \notin TableOpcodes

EventSet(events, classes) ==
    { events[i] : i \in { j \in DOMAIN events : events[j].cls \in classes } }

----------------------------------------------------------------------------
(* C1: at most one transaction is open after every edge and at every point *)
(* inside the processing of an edge; a read-start edge closes the open     *)
(* Write before it opens or extends a Read, a write-start edge closes the  *)
(* open Read or Write before it opens the new Write, and a read-start edge *)
(* that finds a Complete Read closes it before it opens the new Read.      *)
C1_State == OpenCount(Self) <= 1 /\ peak <= 1

C1_Step ==
    /\ (/\ matched' = Match_START_READ
        /\ prev_write # << >>
        /\ (Has(log', "Read") \/ Has(log', "next")))
       => (log'[1] = "end_write" /\ ended_write' # << >> /\ prev_write' = << >>)
    /\ (matched' = Match_START_WRITE /\ Has(log', "Write"))
       => /\ prev_read' = << >>
          /\ prev_read # << >> => (log'[1] = "end_read" /\ ended_read' # << >>)
          /\ prev_write # << >> => (log'[1] = "end_write" /\ ended_write' # << >>)
          /\ prev_write'[1].start_sample = samplenum'
    /\ (/\ matched' = Match_START_READ
        /\ prev_read # << >>
        /\ prev_read[1].state = ReadState_COMPLETE
        /\ Has(log', "Read"))
       => (log' = << "end_read", "Read" >> /\ ended_read' # << >>)

C1_AtMostOneOpen == [] C1_State /\ [][C1_Step]_vars

(* a write-start edge has closed an open Read and opened its Write *)
C1_Witness ==
    /\ matched = Match_START_WRITE
    /\ log = << "end_read", "Write" >>
    /\ prev_write # << >>

----------------------------------------------------------------------------
(* C2, as claimed: a Read opened in a ROM window on a table opcode of      *)
(* length L is Incomplete after samples 1..L-1, Complete at sample L,      *)
(* never holds more than L samples and is never closed with fewer than L.  *)
C2_Progress(r) ==
    LET L == TableEntry(r.cycles[1].data).length
        n == Len(r.cycles)
    IN  /\ 1 <= n /\ n <= L
        /\ r.cycle_count = n
        /\ r.state = IF n < L THEN ReadState_INCOMPLETE ELSE ReadState_COMPLETE

C2_Length(r) == TableEntry(r.cycles[1].data).length

----------------------------------------------------------------------------
(* C3: a Read opened in a ROM window on a byte that is no table opcode is  *)
(* Complete after 1 sample and has no instruction; the next read-start     *)
(* edge closes it and opens a new Read.                                    *)
C3_State ==
    (prev_read # << >> /\ UnknownRead(prev_read[1]))
    => (/\ prev_read[1].state = ReadState_COMPLETE
        /\ Len(prev_read[1].cycles) = 1
        /\ prev_read[1].instruction = << >>)

C3_Step ==
    (/\ prev_read # << >>
     /\ UnknownRead(prev_read[1])
     /\ matched' = Match_START_READ)
    => (/\ ended_read' # << >>
        /\ ended_read'[1].start_sample = prev_read[1].start_sample
        /\ ended_read'[1].cycles = prev_read[1].cycles
        /\ ended_read'[1].end_sample = samplenum'
        /\ prev_read' # << >>
        /\ prev_read'[1].start_sample = samplenum'
        /\ Len(prev_read'[1].cycles) = 1)

C3_UnknownOpcode == [] C3_State /\ [][C3_Step]_vars

C3_Witness ==
    /\ matched = Match_START_READ
    /\ ended_read # << >>
    /\ UnknownRead(ended_read[1])
    /\ prev_read # << >>

----------------------------------------------------------------------------
(* C4, as claimed: after any sequence of edges the active ROM bank is the  *)
(* data of the latest write-start edge at 0x2000 and the active SRAM bank  *)
(* the data of the latest write-start edge at 0x4000, 0x00 without one.    *)
C4_BanksFollowWrites ==
    /\ active_bank(prev_rom_bank) = written.rom
    /\ active_bank(prev_sram_bank) = written.sram

----------------------------------------------------------------------------
(* C5: a Read just opened in [0x4000,0x7FFF] carries the symbol-file entry *)
(* of its address in the ROM bank last written to 0x2000, one opened in    *)
(* [0x0150,0x3FFF] the entry of its address in bank 0x00, and no symbol    *)
(* when the file has no such entry.                                        *)
C5_SymbolByBank ==
    (prev_read # << >> /\ Has(log, "Read"))
    => LET r == prev_read[1]
           a == r.cycles[1].addr
       IN  /\ InRomX(a) => r.symbol = SymbolEntry(written.rom, a)
           /\ InRom0(a) => r.symbol = SymbolEntry(0, a)

(* bank 0x03 selected, then a Read at 0x5000 resolved to MyFunc *)
C5_Witness ==
    /\ prev_read # << >>
    /\ Has(log, "Read")
    /\ prev_read[1].cycles[1].addr = \H5000
    /\ written.rom = \H03
    /\ prev_read[1].symbol = "MyFunc"

----------------------------------------------------------------------------
(* C6: a read-start edge and a write-start edge at an address other than   *)
(* 0x2000 and 0x4000 leave the ROM and SRAM bank records unchanged; a      *)
(* write at 0x2000 leaves the SRAM bank record unchanged and a write at    *)
(* 0x4000 the ROM bank record.                                             *)
C6_Step ==
    /\ matched' = Match_START_READ
       => UNCHANGED <<prev_rom_bank, prev_sram_bank>>
    /\ matched' = Match_START_WRITE
       => /\ EdgeAddr' # ROM_BANK_SELECT => UNCHANGED prev_rom_bank
          /\ EdgeAddr' # SRAM_BANK_SELECT => UNCHANGED prev_sram_bank

C6_BankFrame == [][C6_Step]_vars

(* a write elsewhere, with both banks selected before *)
C6_Witness ==
    /\ matched = Match_START_WRITE
    /\ EdgeAddr \notin {ROM_BANK_SELECT, SRAM_BANK_SELECT}
    /\ Has(log, "Write")
    /\ prev_rom_bank # << >>
    /\ prev_sram_bank # << >>

----------------------------------------------------------------------------
(* C7: the bank-span events of one kind tile the timeline: a span starts   *)
(* at the sample where the previous span of its kind ended and ends at the *)
(* edge that emits it; its label is the bank that was active during it,    *)
(* the one last written before the edge.                                   *)
C7_Kind(new, before, label) ==
    new # << >>
    => (/\ Len(new) = 1
        /\ new[1].ss < new[1].es
        /\ new[1].es = samplenum'
        /\ before.end # None => new[1].ss = before.end
        /\ new[1].text = label)

C7_Step ==
    /\ C7_Kind(OfClass(emitted', Ann_ROM_BANK), spans.rom,
               "ROM Bank: " \o Hex02(written.rom))
    /\ C7_Kind(OfClass(emitted', Ann_SRAM_BANK), spans.sram,
               "SRAM Bank: " \o Hex02(written.sram))

C7_SpansContiguous == [][C7_Step]_vars

(* two spans of each kind have been emitted *)
C7_Witness == spans.rom.count >= 2 /\ spans.sram.count >= 2

----------------------------------------------------------------------------
(* C8: the write-start edge that opens a Write at 0x2000 sets the ROM bank *)
(* record to the data written, starting at that edge, and emits the span   *)
(* of the bank it replaces, with the range filter off or collecting; the   *)
(* same for 0x4000 and the SRAM bank; no other edge, and so no edge that   *)
(* only closes such a Write, emits a span of that kind.                    *)
C8_Kind(select, before, after, cls, prefix) ==
    IF matched' = Match_START_WRITE /\ Has(log', "Write") /\ EdgeAddr' = select
    THEN /\ after = << [start_sample |-> samplenum', end_sample |-> None,
                        bank |-> EdgeData', ann |-> prefix \o Hex02(EdgeData')] >>
         /\ OfClass(emitted', cls) =
              IF before = << >> THEN << >>
              ELSE << [ss |-> before[1].start_sample, es |-> samplenum',
                       cls |-> cls, text |-> before[1].ann] >>
    ELSE OfClass(emitted', cls) = << >>

C8_Step ==
    /\ C8_Kind(ROM_BANK_SELECT, prev_rom_bank, prev_rom_bank',
               Ann_ROM_BANK, "ROM Bank: ")
    /\ C8_Kind(SRAM_BANK_SELECT, prev_sram_bank, prev_sram_bank',
               Ann_SRAM_BANK, "SRAM Bank: ")

C8_SwitchAtOpen == [][C8_Step]_vars

(* a span emitted by a bank-select write while the range filter is off and *)
(* the Write closed by the same edge rendered nothing                      *)
C8_Witness ==
    /\ ~putting
    /\ matched = Match_START_WRITE
    /\ ended_write # << >>
    /\ Len(emitted) = 1
    /\ emitted[1].cls = Ann_ROM_BANK

----------------------------------------------------------------------------
(* C9: the callback runs for a closed Read exactly when the filter was     *)
(* collecting before it or its symbol is start_symbol; afterwards the      *)
(* filter is collecting exactly when that holds and the symbol is not      *)
(* end_symbol; an edge that closes no Read leaves the filter as it was.    *)
C9_Step ==
    IF ended_read' # << >>
    THEN LET symbol == ended_read'[1].symbol
             collecting == putting \/ symbol = start_symbol
         IN  /\ calls' = IF collecting THEN 1 ELSE 0
             /\ putting' = (collecting /\ symbol # end_symbol)
    ELSE calls' = 0 /\ putting' = putting

C9_RangeLatch == [][C9_Step]_vars

(* the Read carrying end_symbol was collected and ended the range *)
C9_Witness ==
    /\ ended_read # << >>
    /\ ended_read[1].symbol = end_symbol
    /\ calls = 1
    /\ ~putting

----------------------------------------------------------------------------
(* the events a rendered Read consists of *)
ReadClasses == {Ann_ADDR, Ann_RD, Ann_SYM, Ann_CODE}

CycleEvents(r) ==
    UNION { LET es == IF i < Len(r.cycles) THEN r.cycles[i + 1].sample
                      ELSE r.end_sample
            IN  { [ss |-> r.cycles[i].sample, es |-> es, cls |-> Ann_ADDR,
                   text |-> Hex04(r.cycles[i].addr)],
                  [ss |-> r.cycles[i].sample, es |-> es, cls |-> Ann_RD,
                   text |-> Hex02(r.cycles[i].data)] } : i \in DOMAIN r.cycles }

ReadEvents(r) ==
    CycleEvents(r)
    \cup (IF r.symbol = NoneStr THEN { }
          ELSE { [ss |-> r.start_sample, es |-> r.end_sample, cls |-> Ann_SYM,
                  text |-> r.symbol] })
    \cup (IF r.instruction = << >> THEN { }
          ELSE { [ss |-> r.start_sample, es |-> r.end_sample, cls |-> Ann_CODE,
                  text |-> IF r.special_ann # NoneStr THEN r.special_ann
                           ELSE TableEntry(r.instruction[1].opcode).ann] })

(* C10, as claimed: every closed Read is rendered, with the range filter   *)
(* off or collecting: an Address and a Data-read event per cycle, a Symbol *)
(* event if it has a symbol and a Code event if it has an instruction.     *)
C10_Original ==
    ended_read # << >>
    => EventSet(emitted, ReadClasses) = ReadEvents(ended_read[1])

(* C10, amended: a closed Read is rendered so exactly when the range       *)
(* filter is collecting (it was before, or the Read carries start_symbol); *)
(* a Read closed while the filter is off emits no event.                   *)
C10_Step ==
    ended_read' # << >>
    => EventSet(emitted', ReadClasses) =
         IF putting \/ ended_read'[1].symbol = start_symbol
         THEN ReadEvents(ended_read'[1])
         ELSE { }

C10_RenderedWhenCollecting == [][C10_Step]_vars

(* a two-cycle Read with a symbol and an instruction rendered in full *)
C10_Witness ==
    /\ ended_read # << >>
    /\ Len(ended_read[1].cycles) = 2
    /\ Len(emitted) = 6

----------------------------------------------------------------------------
(* the events a rendered Write consists of *)
WriteClasses == {Ann_ADDR, Ann_WR, Ann_SYM, Ann_WR_FUNC, Ann_CONST}

(* C11: a Write closed while the range filter is off emits no Address,     *)
(* Data-write, Symbol, Write-Function-name or Constant-meaning event; a    *)
(* Write closed while the filter is collecting emits its Address and its   *)
(* Data-write event, each from its start_sample to its end_sample, the     *)
(* sample of the edge that closes it.                                      *)
C11_Step ==
    ended_write' # << >>
    => LET w == ended_write'[1]
       IN  /\ w.end_sample = samplenum'
           /\ IF putting
              THEN EventSet(emitted', {Ann_ADDR, Ann_WR}) =
                     { [ss |-> w.start_sample, es |-> w.end_sample,
                        cls |-> Ann_ADDR, text |-> Hex04(w.cycle.addr)],
                       [ss |-> w.start_sample, es |-> w.end_sample,
                        cls |-> Ann_WR, text |-> Hex02(w.cycle.data)] }
              ELSE EventSet(emitted', WriteClasses) = { }

C11_WritesFiltered == [][C11_Step]_vars

(* a Write closed while the filter is collecting, rendered *)
C11_Witness ==
    /\ ended_write # << >>
    /\ Len(OfClass(emitted, Ann_ADDR)) = 1
    /\ Len(OfClass(emitted, Ann_WR)) = 1
    /\ emitted[1].ss < emitted[1].es

----------------------------------------------------------------------------
(* the opcodes that carry an absolute 16-bit operand *)
C12_Operands == {\H21, \HC2, \HC3, \HCA, \HCD, \HEA}

(* C12: a closed Read with an instruction of one of these opcodes has the  *)
(* operand address cycle[2].data * 256 + cycle[1].data looked up in the    *)
(* symbol file under the SRAM bank active when it is closed; with an entry *)
(* its annotation is "<mnemonic> (<symbol>)", without one the mnemonic; a  *)
(* closed Read of any other opcode has the mnemonic; a Code event put for  *)
(* the Read carries that annotation.                                       *)
C12_Step ==
    (ended_read' # << >> /\ ended_read'[1].instruction # << >>)
    => LET r == ended_read'[1]
           entry == TableEntry(r.cycles[1].data)
           operand == r.cycles[3].data * 256 + r.cycles[2].data
           symbol == SymbolEntry(active_bank(prev_sram_bank), operand)
           ann == IF r.cycles[1].data \in C12_Operands /\ symbol # NoneStr
                  THEN entry.ann \o " (" \o symbol \o ")"
                  ELSE entry.ann
       IN  /\ get_instruction_ann(r) = ann
           /\ \A i \in DOMAIN emitted' :
                emitted'[i].cls = Ann_CODE => emitted'[i].text = ann

C12_OperandSymbol == [][C12_Step]_vars

(* call nn with operand bytes 0x00, 0x50 closed under SRAM bank 0x03 *)
C12_Witness ==
    /\ ended_read # << >>
    /\ Len(ended_read[1].cycles) = 3
    /\ ended_read[1].cycles[1].data = \HCD
    /\ ended_read[1].cycles[2].data = \H00
    /\ ended_read[1].cycles[3].data = \H50
    /\ active_bank(prev_sram_bank) = \H03
    /\ get_instruction_ann(ended_read[1]) = "call nn (MyFunc)"

----------------------------------------------------------------------------
(* C13, as claimed: whatever the pin vectors of the edges, with assigned   *)
(* or unassigned channels, no edge ends in an exception, so decode() goes  *)
(* on to the next edge.                                                    *)
C13_NoFatalCondition == err = ""

----------------------------------------------------------------------------
(* the sum of p[lo] * 2^0 + ... + p[lo + n - 1] * 2^(n-1), pins counted    *)
(* from 0                                                                  *)
RECURSIVE C14_Weighted(_, _, _)
C14_Weighted(p, lo, n) ==
    IF n = 0 THEN 0
    ELSE C14_Weighted(p, lo, n - 1) + p[lo + n] * Pow2(n - 1)

C14_Bus(p, lo, n) ==
    IF \E i \in 1..n : p[lo + i] = \HFF THEN None ELSE C14_Weighted(p, lo, n)

(* C14: the Cycle built from a pin vector has address None when one of the *)
(* 16 address pins A0..A15 is 0xFF and otherwise the sum of A_i * 2^i, and *)
(* data None when one of the 8 data pins D0..D7 is 0xFF and otherwise the  *)
(* sum of D_i * 2^i, each whatever the other bus; the transaction opened   *)
(* or extended by the edge holds that address and data.                    *)
C14_Decoded ==
    built # << >>
    => /\ built[1].addr = C14_Bus(pins, 4, 16)
       /\ built[1].data = C14_Bus(pins, 20, 8)
       /\ Has(log, "Write")
          => (/\ prev_write[1].cycle.addr = built[1].addr
              /\ prev_write[1].cycle.data = built[1].data)
       /\ (Has(log, "Read") \/ Has(log, "next"))
          => (/\ prev_read[1].cycles[Len(prev_read[1].cycles)].addr = built[1].addr
              /\ prev_read[1].cycles[Len(prev_read[1].cycles)].data = built[1].data)

(* one address line unassigned and the data bus driven: no address, the    *)
(* data decoded                                                            *)
C14_Witness ==
    /\ built # << >>
    /\ pins[20] = \HFF
    /\ \A i \in 5..19 : pins[i] # \HFF
    /\ built[1].addr = None
    /\ built[1].data = \H03

----------------------------------------------------------------------------
(* C15: when a session starts, whatever the session before it left, there  *)
(* is no open Read and no open Write, no ROM or SRAM bank span is open and *)
(* the active banks are 0x00, the range filter is off and no sample has    *)
(* been seen: the Decoder is as it is at the start of its first session.   *)
C15_Step ==
    session' # session
    => /\ samplenum' = None
       /\ prev_read' = << >>
       /\ prev_write' = << >>
       /\ prev_rom_bank' = << >>
       /\ prev_sram_bank' = << >>
       /\ active_bank(prev_rom_bank') = \H00
       /\ active_bank(prev_sram_bank') = \H00
       /\ ~putting'

C15_SessionReset == [][C15_Step]_vars

(* a second session has started *)
C15_Witness ==
    /\ session = 2
    /\ samplenum = None
    /\ prev_read = << >>
    /\ prev_write = << >>
    /\ ~putting

----------------------------------------------------------------------------
(* the hardware-constant table: address, name and data meanings *)
C16_Constants ==
    { [addr |-> \H0000, name |-> "MBC3SRamEnable",
       meaning |-> [d \in {\H0A, \H00} |->
                       IF d = \H0A THEN "SRAM_ENABLE" ELSE "SRAM_DISABLE"]],
      [addr |-> \H2000, name |-> "MBC3RomBank", meaning |-> << >>],
      [addr |-> \H4000, name |-> "MBC3SRamBank", meaning |-> << >>],
      [addr |-> \H6000, name |-> "MBC3LatchClock",
       meaning |-> [d \in {\H01, \H00} |->
                       IF d = \H01 THEN "LATCH_CLOCK" ELSE "RESET_LATCH"]],
      [addr |-> \HA000, name |-> "MBC3RTC", meaning |-> << >>] }

C16_ConstantAt(addr) == { c \in C16_Constants : c.addr = addr }

(* C16: an open Write has a descriptor attached exactly when its address   *)
(* is one of the five hardware-constant addresses, and it is the           *)
(* descriptor of that address.                                             *)
C16_State ==
    prev_write # << >>
    => LET w == prev_write[1]
       IN  IF C16_ConstantAt(w.cycle.addr) = { }
           THEN w.hardware_const = << >>
           ELSE /\ w.hardware_const # << >>
                /\ w.hardware_const[1].addr = w.cycle.addr
                /\ \A c \in C16_ConstantAt(w.cycle.addr) :
                     w.hardware_const[1].ann = c.name

(* C16: a Write without symbol that is rendered puts the name of the       *)
(* constant at its address as a Write-Function-name event, and a           *)
(* Constant-meaning event exactly when its data is among the meanings of   *)
(* the constant, with that meaning; a Write at no constant address puts    *)
(* neither; no case raises.                                                *)
C16_Step ==
    (ended_write' # << >> /\ putting /\ ended_write'[1].symbol = NoneStr)
    => LET w == ended_write'[1]
       IN  /\ err' = ""
           /\ EventSet(emitted', {Ann_WR_FUNC}) =
                { [ss |-> w.start_sample, es |-> w.end_sample,
                   cls |-> Ann_WR_FUNC, text |-> c.name] :
                  c \in C16_ConstantAt(w.cycle.addr) }
           /\ EventSet(emitted', {Ann_CONST}) =
                { [ss |-> w.start_sample, es |-> w.end_sample,
                   cls |-> Ann_CONST, text |-> c.meaning[w.cycle.data]] :
                  c \in { k \in C16_ConstantAt(w.cycle.addr) :
                            w.cycle.data \in DOMAIN k.meaning } }

C16_HardwareConstants == [] C16_State /\ [][C16_Step]_vars

(* a write of 0x0A to 0x0000 rendered as MBC3SRamEnable, SRAM_ENABLE *)
C16_Witness ==
    /\ ended_write # << >>
    /\ ended_write[1].cycle.addr = \H0000
    /\ ended_write[1].cycle.data = \H0A
    /\ Len(emitted) = 4
    /\ emitted[3].text = "MBC3SRamEnable"
    /\ emitted[4].text = "SRAM_ENABLE"

----------------------------------------------------------------------------
(* C17, as claimed: a write-start edge that finds an Incomplete Read open  *)
(* raises nothing: the Read is closed with the sample of the edge as its   *)
(* end_sample, the range filter has seen it, prev_read is empty and the    *)
(* Write of the edge is open.                                              *)
C17_Step ==
    (/\ matched' = Match_START_WRITE
     /\ prev_read # << >>
     /\ prev_read[1].state = ReadState_INCOMPLETE)
    => (/\ err' = ""
        /\ ended_read' # << >>
        /\ ended_read'[1].cycles = prev_read[1].cycles
        /\ ended_read'[1].end_sample = samplenum'
        /\ putting' = (/\ putting \/ ended_read'[1].symbol = start_symbol
                       /\ ended_read'[1].symbol # end_symbol)
        /\ prev_read' = << >>
        /\ log' = << "end_read", "Write" >>
        /\ prev_write' # << >>
        /\ prev_write'[1].start_sample = samplenum')

C17_ForcedClose == [][C17_Step]_vars

----------------------------------------------------------------------------
(* a Read opened at a driven address outside both ROM windows *)
C18_Outside(r) == r.cycles[1].addr # None /\ ~InRomWindow(r.cycles[1].addr)

(* C18: a Read opened outside both ROM windows is Complete after its first *)
(* sample and has no mode, no symbol and no instruction, whatever its data *)
(* byte; open or closed it holds exactly one cycle; the next read-start    *)
(* edge closes it and opens a new Read.                                    *)
C18_State ==
    /\ (prev_read # << >> /\ C18_Outside(prev_read[1]))
       => (/\ prev_read[1].state = ReadState_COMPLETE
           /\ Len(prev_read[1].cycles) = 1
           /\ prev_read[1].mode = None
           /\ prev_read[1].symbol = NoneStr
           /\ prev_read[1].instruction = << >>)
    /\ (ended_read # << >> /\ C18_Outside(ended_read[1]))
       => (/\ Len(ended_read[1].cycles) = 1
           /\ ended_read[1].mode = None
           /\ ended_read[1].symbol = NoneStr
           /\ ended_read[1].instruction = << >>)

C18_Step ==
    (/\ prev_read # << >>
     /\ C18_Outside(prev_read[1])
     /\ matched' = Match_START_READ)
    => (/\ err' = ""
        /\ ended_read' # << >>
        /\ ended_read'[1].start_sample = prev_read[1].start_sample
        /\ ended_read'[1].cycles = prev_read[1].cycles
        /\ ended_read'[1].end_sample = samplenum'
        /\ prev_read' # << >>
        /\ prev_read'[1].start_sample = samplenum'
        /\ Len(prev_read'[1].cycles) = 1)

C18_OutsideWindows == [] C18_State /\ [][C18_Step]_vars

(* a Read of a table opcode at 0xA000, where bank 0x00 has a symbol,       *)
(* closed by the next read-start edge                                      *)
C18_Witness ==
    /\ matched = Match_START_READ
    /\ ended_read # << >>
    /\ ended_read[1].cycles[1].addr = \HA000
    /\ ended_read[1].cycles[1].data = \H3E
    /\ ended_read[1].symbol = NoneStr
    /\ prev_read # << >>
    /\ prev_read[1].cycles[1].addr = \H0000
    /\ prev_read[1].cycles[1].data = \H3E
    /\ prev_read[1].state = ReadState_COMPLETE

----------------------------------------------------------------------------
(* the cycles of a Read are in arrival order: the first at its             *)
(* start_sample, each later one at a later sample                          *)
C19_InOrder(r) ==
    /\ r.cycles[1].sample = r.start_sample
    /\ \A i \in 1..(Len(r.cycles) - 1) : r.cycles[i].sample < r.cycles[i + 1].sample

(* a Read with an instruction: the instruction is that of its first data   *)
(* byte, it holds no more cycles than the declared length, the first cycle *)
(* is marked Opcode and the later ones Data                                *)
C19_Assembled(r) ==
    r.instruction # << >>
    => /\ r.cycles[1].data \in TableOpcodes
       /\ r.instruction[1] = TableEntry(r.cycles[1].data)
       /\ Len(r.cycles) <= TableEntry(r.cycles[1].data).length
       /\ r.cycles[1].cycle_type = CycleType_OPCODE
       /\ \A i \in 2..Len(r.cycles) : r.cycles[i].cycle_type = CycleType_DATA

(* C19: an open Read with an instruction holds at most as many cycles as   *)
(* the declared length; a Read is Incomplete only with an instruction and  *)
(* 1 <= cycle count < declared length; the cycles are in arrival order,    *)
(* the first marked Opcode and the later ones Data.                        *)
C19_State ==
    /\ prev_read # << >>
       => (/\ Len(prev_read[1].cycles) >= 1
           /\ C19_InOrder(prev_read[1])
           /\ C19_Assembled(prev_read[1])
           /\ prev_read[1].state = ReadState_INCOMPLETE
              => (/\ prev_read[1].instruction # << >>
                  /\ prev_read[1].cycle_count = Len(prev_read[1].cycles)
                  /\ 1 <= prev_read[1].cycle_count
                  /\ prev_read[1].cycle_count < prev_read[1].instruction[1].length))
    /\ ended_read # << >>
       => (C19_InOrder(ended_read[1]) /\ C19_Assembled(ended_read[1]))
    /\ err # "AttributeError"

(* C19: Read.next is applied only to a Read that has an instruction, and   *)
(* appends the cycle of the edge, marked Data, after the cycles held.      *)
C19_Step ==
    Has(log', "next")
    => (/\ prev_read # << >>
        /\ prev_read[1].instruction # << >>
        /\ prev_read' # << >>
        /\ prev_read'[1].cycles =
             Append(prev_read[1].cycles,
                    [sample |-> samplenum', addr |-> EdgeAddr', data |-> EdgeData',
                     cycle_type |-> CycleType_DATA]))

C19_AssembledInSequence == [] C19_State /\ [][C19_Step]_vars

(* the four cycles of ld [nn], a, the last one just appended *)
C19_Witness ==
    /\ Has(log, "next")
    /\ prev_read # << >>
    /\ prev_read[1].cycles[1].data = \HEA
    /\ Len(prev_read[1].cycles) = 4
    /\ prev_read[1].state = ReadState_COMPLETE

----------------------------------------------------------------------------
C20_InSram(addr) == \HA000 <= addr /\ addr <= \HBFFF

(* C20: an open Write at an address in [0xA000,0xBFFF] has mode WRITE_SRAM *)
(* and the symbol-file entry of its address in the SRAM bank last written  *)
(* to 0x4000, 0x00 without such a write; an open Write at another address  *)
(* has no mode and no symbol.                                              *)
C20_State ==
    prev_write # << >>
    => LET w == prev_write[1]
       IN  IF C20_InSram(w.cycle.addr)
           THEN /\ w.mode = Mode_WRITE_SRAM
                /\ w.symbol = SymbolEntry(written.sram, w.cycle.addr)
           ELSE /\ w.mode = None
                /\ w.symbol = NoneStr

(* C20: a Write with a symbol that is rendered puts the symbol as a Symbol *)
(* event and no Write-Function-name and no Constant-meaning event.         *)
C20_Step ==
    (ended_write' # << >> /\ putting /\ ended_write'[1].symbol # NoneStr)
    => LET w == ended_write'[1]
       IN  /\ EventSet(emitted', {Ann_SYM}) =
                { [ss |-> w.start_sample, es |-> w.end_sample,
                   cls |-> Ann_SYM, text |-> w.symbol] }
           /\ EventSet(emitted', {Ann_WR_FUNC, Ann_CONST}) = { }

C20_SramWrites == [] C20_State /\ [][C20_Step]_vars

(* a Write at 0xA000, opened under SRAM bank 0x01 and carrying the         *)
(* descriptor of the constant at 0xA000, rendered with its symbol          *)
C20_Witness ==
    /\ ended_write # << >>
    /\ ended_write[1].cycle.addr = \HA000
    /\ ended_write[1].hardware_const # << >>
    /\ ended_write[1].symbol = "sBoxMon"
    /\ Len(OfClass(emitted, Ann_SYM)) = 1
    /\ OfClass(emitted, Ann_SYM)[1].text = "sBoxMon"

(* ---------------------------------------------------------------------- *)
(* C21: closed transactions tile the sample timeline.  The end_sample of  *)
(* the Read or Write closed by an edge is the sample index of that edge,  *)
(* the transaction the same edge opens starts at that sample, a closed    *)
(* transaction never ends before it starts, and the per-cycle events of a *)
(* rendered Read partition [start_sample, end_sample]: the first starts   *)
(* at start_sample, each ends where the next starts, the last ends at     *)
(* end_sample.                                                            *)
(* ---------------------------------------------------------------------- *)
C21_Closed(t, sample) ==
    /\ t.end_sample = sample
    /\ t.start_sample <= t.end_sample

C21_Opened(r, w, sample) ==
    \/ r # << >> /\ r[1].start_sample = sample /\ r[1].end_sample = None
    \/ w # << >> /\ w[1].start_sample = sample /\ w[1].end_sample = None

C21_Partition(r, ev) ==
    /\ Len(ev) = Len(r.cycles)
    /\ ev[1].ss = r.start_sample
    /\ \A i \in 1..Len(ev) :
          /\ ev[i].ss = r.cycles[i].sample
          /\ ev[i].ss < ev[i].es
          /\ ev[i].es = IF i < Len(ev) THEN ev[i + 1].ss ELSE r.end_sample

C21_Step ==
    /\ ended_read' # << >> =>
          /\ C21_Closed(ended_read'[1], samplenum')
          /\ C21_Opened(prev_read', prev_write', samplenum')
          /\ OfClass(emitted', Ann_ADDR) # << >> =>
                /\ C21_Partition(ended_read'[1], OfClass(emitted', Ann_ADDR))
                /\ C21_Partition(ended_read'[1], OfClass(emitted', Ann_RD))
    /\ ended_write' # << >> =>
          /\ C21_Closed(ended_write'[1], samplenum')
          /\ C21_Opened(prev_read', prev_write', samplenum')

C21_TransactionsTile == [][C21_Step]_vars

(* a rendered three-cycle Read closed by a read edge that opens the next  *)
(* Read at the same sample                                                *)
C21_Witness ==
    /\ ended_read # << >>
    /\ Len(ended_read[1].cycles) = 3
    /\ Len(OfClass(emitted, Ann_ADDR)) = 3
    /\ ended_read[1].end_sample = samplenum
    /\ prev_read # << >>
    /\ prev_read[1].start_sample = samplenum

(* ---------------------------------------------------------------------- *)
(* C22: a transaction is closed only by a later edge, and is closed and   *)
(* rendered at most once.  After any edge, which may be the last of the   *)
(* capture, the transaction that edge opened or extended is still open    *)
(* and no event of it has been emitted; the Read an edge closes is the    *)
(* one that was open before the edge, it had not been closed before, it   *)
(* is handed to the range filter once, and any Read open afterwards was   *)
(* opened later than it, so Reads reach the filter in the order in which  *)
(* they were opened.                                                      *)
(* ---------------------------------------------------------------------- *)
C22_Count(q, op) == Cardinality({i \in DOMAIN q : q[i] = op})

(* the Read or Write the latest edge opened or extended is still open *)
C22_StillOpen ==
    /\ (Has(log, "Read") \/ Has(log, "next")) =>
          /\ prev_read # << >>
          /\ prev_read[1].end_sample = None
          /\ prev_read[1].cycles[Len(prev_read[1].cycles)].sample = samplenum
    /\ Has(log, "Read") => prev_read[1].start_sample = samplenum
    /\ Has(log, "Write") =>
          /\ prev_write # << >>
          /\ prev_write[1].end_sample = None
          /\ prev_write[1].start_sample = samplenum
    /\ (samplenum # None /\ err = "") =>
          C22_Count(log, "Read") + C22_Count(log, "next")
              + C22_Count(log, "Write") = 1

(* every event emitted by the edge ends at the edge and began before it, *)
(* and an edge that extends a Read emits nothing                         *)
C22_NothingOfOpen ==
    /\ \A i \in DOMAIN emitted :
          emitted[i].ss < samplenum /\ emitted[i].es <= samplenum
    /\ Has(log, "next") => emitted = << >>
    /\ (ended_read = << >> /\ ended_write = << >>) =>
          \A i \in DOMAIN emitted :
             emitted[i].cls \in {Ann_ROM_BANK, Ann_SRAM_BANK}

C22_State == C22_StillOpen /\ C22_NothingOfOpen

C22_SameRead(before, closed) ==
    /\ before # << >>
    /\ before[1].end_sample = None
    /\ before[1].start_sample = closed.start_sample
    /\ before[1].cycles = closed.cycles

C22_Step ==
    /\ IF ended_read' # << >>
       THEN /\ C22_SameRead(prev_read, ended_read'[1])
            /\ C22_Count(log', "end_read") = 1
            /\ calls' <= 1
            /\ Len(OfClass(emitted', Ann_CODE)) <= 1
            /\ Len(OfClass(emitted', Ann_RD)) \in
                  {0, Len(ended_read'[1].cycles)}
            /\ prev_read' # << >> =>
                  prev_read'[1].start_sample > ended_read'[1].start_sample
       ELSE /\ ~Has(log', "end_read")
            /\ calls' = 0
            /\ OfClass(emitted', Ann_RD) = << >>
            /\ OfClass(emitted', Ann_CODE) = << >>
            /\ prev_read # << >> =>
                  /\ prev_read' # << >>
                  /\ prev_read'[1].start_sample = prev_read[1].start_sample
    /\ IF ended_write' # << >>
       THEN /\ prev_write # << >>
            /\ prev_write[1].end_sample = None
            /\ prev_write[1].start_sample = ended_write'[1].start_sample
            /\ C22_Count(log', "end_write") = 1
            /\ Len(OfClass(emitted', Ann_WR)) <= 1
            /\ prev_write' # << >> =>
                  prev_write'[1].start_sample > ended_write'[1].start_sample
       ELSE /\ ~Has(log', "end_write")
            /\ OfClass(emitted', Ann_WR) = << >>
            /\ prev_write # << >> =>
                  /\ prev_write' # << >>
                  /\ prev_write'[1].start_sample = prev_write[1].start_sample

C22_ClosedOnceInOrder == [] C22_State /\ [][C22_Step]_vars

(* a write-start edge has closed a Read that the range filter rendered,  *)
(* and the Write it opened is open with none of its events emitted       *)
C22_Witness ==
    /\ ended_read # << >>
    /\ calls = 1
    /\ OfClass(emitted, Ann_RD) # << >>
    /\ prev_read = << >>
    /\ prev_write # << >>
    /\ prev_write[1].start_sample = samplenum
    /\ OfClass(emitted, Ann_WR) = << >>

(* ---------------------------------------------------------------------- *)
(* C23: for each bank kind, k writes to its bank-select address produce   *)
(* exactly max(k - 1, 0) bank-span events: the first write emits no span, *)
(* each later one emits the span of the bank it replaces, and the span of *)
(* the bank active at the end of the capture is never emitted.            *)
(* ---------------------------------------------------------------------- *)
C23_Expected(k) == IF k > 0 THEN k - 1 ELSE 0

C23_SpansPerWrite ==
    /\ spans.rom.count = C23_Expected(written.rom_count)
    /\ spans.sram.count = C23_Expected(written.sram_count)

(* the count holds after every edge the decoder handled to its end, and  *)
(* the bank active then is the one whose span is still to come           *)
C23_WhenHandled ==
    err = "" =>
       /\ C23_SpansPerWrite
       /\ written.rom_count > 0 =>
             /\ prev_rom_bank # << >>
             /\ prev_rom_bank[1].end_sample = None
             /\ prev_rom_bank[1].bank = written.rom
       /\ written.sram_count > 0 =>
             /\ prev_sram_bank # << >>
             /\ prev_sram_bank[1].end_sample = None
             /\ prev_sram_bank[1].bank = written.sram

(* the second write to 0x4000 was lost with the forced close of a Read *)
C23_LostWrite ==
    /\ err = "IndexError"
    /\ written.sram_count = 2
    /\ spans.sram.count = 0

====
